---- MODULE Spec2Model ----
(***************************************************************************)
(* A model of the microc compiler pipeline: the character classifier and   *)
(* lexer (src/src/char_utils.rs, src/src/lexer.rs), the recursive-descent  *)
(* parser (src/src/ast.rs) and the code generator (src/src/codegen.rs).    *)
(*                                                                         *)
(* Characters are Unicode code points (naturals); a source text is a       *)
(* sequence of code points.  Byte lengths are the UTF-8 lengths, because   *)
(* the lexer measures tokens in bytes and columns in characters.           *)
(***************************************************************************)
EXTENDS Integers, Sequences, FiniteSets, TLC

VARIABLES
    mode,           \* which entry point of the crate this behaviour runs
    source,         \* Lexer.source, as code points
    lexer,          \* the Lexer fields len_remaining, chars, line, column, offset
    token,          \* the Token most recently returned by the lexer
    lex_pc,         \* position of the caller that drives the lexer
    lex_err,        \* the panic raised while lexing, if any
    count,          \* test_loop's countdown after the first ScanEof
    tokens,         \* ASTBuilder.iter: the tokens the iterator yields, in order
    builder,        \* ASTBuilder: pos (index of current in tokens), current, current_string
    p_vec,          \* parse's p_vec, the statement nodes pushed so far
    program_start,  \* parse's program_start
    parse_pc,       \* position in parse: "loop", "returned" or "panicked"
    p_span,         \* history: for each node of p_vec, the indexes of the first
                    \* token of its statement and of the lookahead after it
    statements,     \* the argument of generate: the statement nodes to compile
    stmt_idx,       \* how many statements generate's loop has compiled
    cg,             \* CodeGenerator: frame_size, frame_pointer, symbol_map, asm
    gen_pc,         \* position in generate: "loop", "returned" or "panicked"
    output,         \* the text generate returns: prologue size, body, epilogue size
    tick            \* history: the parity of the number of steps taken, so that a
                    \* loop iteration that changes nothing else is still a step

lexvars == <<source, lexer, token, lex_pc, lex_err, count>>
parsevars == <<tokens, builder, p_vec, program_start, parse_pc, p_span>>
genvars == <<statements, stmt_idx, cg, gen_pc, output>>

(***************************************************************************)
(* Generic helpers.                                                        *)
(***************************************************************************)
SetMin(S) == CHOOSE x \in S : \A y \in S : x <= y
SetMax(S) == CHOOSE x \in S : \A y \in S : x >= y

\* char::len_utf8, the number of bytes a code point takes in a &str
Utf8Len(c) == IF c < 128 THEN 1 ELSE IF c < 2048 THEN 2 ELSE IF c < 65536 THEN 3 ELSE 4

RECURSIVE ByteLen(_)
\* str::len of a text: its length in bytes
ByteLen(s) == IF s = <<>> THEN 0 ELSE Utf8Len(Head(s)) + ByteLen(Tail(s))

\* &s[lo..hi]: the characters whose first byte lies in the byte range lo..hi-1
ByteSlice(s, lo, hi) ==
    LET idx == {i \in 1..Len(s) : /\ ByteLen(SubSeq(s, 1, i - 1)) >= lo
                                  /\ ByteLen(SubSeq(s, 1, i - 1)) < hi}
    IN IF idx = {} THEN <<>> ELSE SubSeq(s, SetMin(idx), SetMax(idx))

(***************************************************************************)
(* src/src/char_utils.rs                                                   *)
(***************************************************************************)
\* the non-zero entries of the 256-entry table
WHITESPACE_MAP(i) ==
    IF i \in 0..8 THEN 2
    ELSE IF i \in {9, 10} THEN 3
    ELSE IF i \in {11, 12, 13} THEN 1
    ELSE IF i = 32 THEN 1
    ELSE IF i \in {40, 41, 47, 95} THEN 2
    ELSE IF i \in {133, 160} THEN 1
    ELSE 0

lookup(c) ==
    LET hi == c \div 256
        lo == c % 256
    IN IF hi = 0 THEN WHITESPACE_MAP(lo) % 2 # 0
       ELSE IF hi = 22 THEN c = 5760
       ELSE IF hi = 32 THEN (WHITESPACE_MAP(lo) \div 2) % 2 # 0
       ELSE IF hi = 48 THEN c = 12288
       ELSE FALSE

is_whitespace(c) ==
    IF c = 32 \/ c \in 9..13 THEN TRUE ELSE c > 127 /\ lookup(c)

is_identifier_continue(c) == c \in 48..57 \/ c \in 65..90 \/ c \in 97..122

is_digit(c) == c \in 48..57

is_expected(c) ==
    \/ is_identifier_continue(c)
    \/ is_whitespace(c)
    \/ c \in {61, 43, 45, 40, 41, 59, 44}

(***************************************************************************)
(* src/src/lexer.rs                                                        *)
(***************************************************************************)
EOF_CHAR == 0

\* char::is_whitespace of the standard library (Unicode White_Space), used
\* by next_token to decide that a whitespace token starts
char_is_whitespace(c) ==
    \/ c = 32 \/ c \in 9..13
    \/ c \in {133, 160, 5760, 8232, 8233, 8239, 8287, 12288}
    \/ c \in 8192..8202

char_is_ascii_alphabetic(c) == c \in 65..90 \/ c \in 97..122

KwBegin == <<98, 101, 103, 105, 110>>
KwEnd == <<101, 110, 100>>
KwRead == <<114, 101, 97, 100>>
KwWrite == <<119, 114, 105, 116, 101>>

I32Max == 2147483647

RECURSIVE ParseI32Acc(_, _)
\* str::parse::<i32> on a run of ASCII digits: the value, or -1 for
\* Err(PosOverflow)
ParseI32Acc(digits, acc) ==
    IF digits = <<>> THEN acc
    ELSE LET d == Head(digits) - 48
         IN IF acc > (I32Max - d) \div 10 THEN -1
            ELSE ParseI32Acc(Tail(digits), acc * 10 + d)

ParseI32(digits) == ParseI32Acc(digits, 0)

LexerNew(content) ==
    [len_remaining |-> ByteLen(content), chars |-> 0,
     line |-> 1, column |-> 1, offset |-> 0]

\* chars.as_str().len(): the bytes not yet consumed
AsStrLen(lx) == ByteLen(SubSeq(source, lx.chars + 1, Len(source)))

first(lx) == IF lx.chars < Len(source) THEN source[lx.chars + 1] ELSE EOF_CHAR

is_eof(lx) == AsStrLen(lx) = 0

token_length(lx) == lx.len_remaining - AsStrLen(lx)

reset_token_length(lx) ==
    [lx EXCEPT !.offset = @ + token_length(lx), !.len_remaining = AsStrLen(lx)]

\* bump: the lexer after consuming one character (unchanged at the end)
bump(lx) ==
    IF lx.chars >= Len(source) THEN lx
    ELSE LET c == source[lx.chars + 1]
         IN [lx EXCEPT !.chars = @ + 1,
                       !.line = IF c = 10 THEN @ + 1 ELSE @,
                       !.column = IF c = 10 THEN 1 ELSE @ + 1]

get_token_string(lx) == ByteSlice(source, lx.offset, lx.offset + token_length(lx))

\* the closures and functions next_token passes to eat_while / eat_until
Predicate(p, c) ==
    IF p = "not_newline" THEN c # 10
    ELSE IF p = "is_whitespace" THEN is_whitespace(c)
    ELSE IF p = "is_identifier_continue" THEN is_identifier_continue(c)
    ELSE IF p = "is_digit" THEN is_digit(c)
    ELSE is_expected(c)

RECURSIVE eat_while(_, _)
eat_while(lx, p) ==
    IF Predicate(p, first(lx)) /\ ~is_eof(lx) THEN eat_while(bump(lx), p) ELSE lx

RECURSIVE eat_until(_, _)
eat_until(lx, p) ==
    IF ~Predicate(p, first(lx)) /\ ~is_eof(lx) THEN eat_until(bump(lx), p) ELSE lx

NoName == <<>>
NoErr == [kind |-> "none", line |-> 0, column |-> 0, len |-> 0]

TokenNew(lx) ==
    [token_type |-> "Unknown", name |-> NoName, value |-> 0, length |-> 0,
     line |-> lx.line, column |-> lx.column, offset |-> lx.offset]

TokenUnknown ==
    [token_type |-> "Unknown", name |-> NoName, value |-> 0, length |-> 0,
     line |-> 0, column |-> 0, offset |-> 0]

TokenEof ==
    [token_type |-> "ScanEof", name |-> NoName, value |-> 0, length |-> 0,
     line |-> 0, column |-> 0, offset |-> 0]

\* syntax_error: the panic it raises.  The column printed is
\* self.column - len in usize: when len exceeds the column the subtraction
\* overflows, which panics in a build with overflow checks and wraps
\* otherwise (a negative column stands for the value modulo 2^64).
syntax_error(lx, overflow_checks) ==
    LET len == token_length(lx)
    IN IF lx.column < len /\ overflow_checks
       THEN [kind |-> "arithmetic_overflow", line |-> lx.line, column |-> 0, len |-> len]
       ELSE [kind |-> "syntax_error", line |-> lx.line,
             column |-> lx.column - len, len |-> len]

Scanned(lx, ty, nm, val) ==
    [status |-> "ok", lexer |-> lx, token_type |-> ty, name |-> nm, value |-> val,
     err |-> NoErr]

ScanPanic(lx, e) ==
    [status |-> "panic", lexer |-> lx, token_type |-> "Unknown", name |-> NoName,
     value |-> 0, err |-> e]

\* the match on first_char in next_token, after the first bump
ScanToken(first_char, lx, overflow_checks) ==
    IF first_char = 45 THEN
        IF first(lx) = 45
        THEN Scanned(eat_while(bump(lx), "not_newline"), "LineComment", NoName, 0)
        ELSE Scanned(lx, "OpMinus", NoName, 0)
    ELSE IF char_is_whitespace(first_char) THEN
        Scanned(eat_while(lx, "is_whitespace"), "Whitespace", NoName, 0)
    ELSE IF char_is_ascii_alphabetic(first_char) THEN
        LET l2 == eat_while(lx, "is_identifier_continue")
            token_string == get_token_string(l2)
        IN IF token_string = KwBegin THEN Scanned(l2, "Begin", NoName, 0)
           ELSE IF token_string = KwEnd THEN Scanned(l2, "End", NoName, 0)
           ELSE IF token_string = KwRead THEN Scanned(l2, "Read", NoName, 0)
           ELSE IF token_string = KwWrite THEN Scanned(l2, "Write", NoName, 0)
           ELSE Scanned(l2, "Identifier", token_string, 0)
    ELSE IF first_char \in 48..57 THEN
        LET l2 == eat_while(lx, "is_digit")
            v == ParseI32(get_token_string(l2))
        IN IF v < 0
           THEN ScanPanic(l2, [kind |-> "parse_int_error", line |-> l2.line,
                               column |-> l2.column, len |-> token_length(l2)])
           ELSE Scanned(l2, "IntLiteral", NoName, v)
    ELSE IF first_char = 40 THEN Scanned(lx, "LeftParen", NoName, 0)
    ELSE IF first_char = 41 THEN Scanned(lx, "RightParen", NoName, 0)
    ELSE IF first_char = 59 THEN Scanned(lx, "Semicolon", NoName, 0)
    ELSE IF first_char = 44 THEN Scanned(lx, "Comma", NoName, 0)
    ELSE IF first_char = 58 THEN
        IF first(lx) = 61
        THEN Scanned(bump(lx), "OpAssign", NoName, 0)
        ELSE ScanPanic(lx, [kind |-> "explicit_panic", line |-> lx.line,
                            column |-> lx.column, len |-> token_length(lx)])
    ELSE IF first_char = 43 THEN Scanned(lx, "OpPlus", NoName, 0)
    ELSE LET l2 == eat_until(lx, "is_expected")
         IN ScanPanic(l2, syntax_error(l2, overflow_checks))

\* next_token at the end of the text with the token left as Token::new made it
next_token_at_end_untyped(lx, tok) ==
    [status |-> "ok", lexer |-> lx, token |-> tok, err |-> NoErr]

\* next_token when bump returns None: the token becomes ScanEof, nothing is
\* consumed
next_token_at_end(lx, tok) ==
    [status |-> "ok", lexer |-> lx,
     token |-> [tok EXCEPT !.token_type = "ScanEof"], err |-> NoErr]

\* next_token: the token returned (or the panic raised) and the lexer after
next_token(lx, overflow_checks) ==
    LET tok == TokenNew(lx)
    IN IF lx.chars >= Len(source)
       THEN next_token_at_end(lx, tok)
       ELSE LET first_char == source[lx.chars + 1]
                s == ScanToken(first_char, bump(lx), overflow_checks)
            IN IF s.status = "panic"
               THEN [status |-> "panic", lexer |-> s.lexer, token |-> tok, err |-> s.err]
               ELSE [status |-> "ok",
                     lexer |-> reset_token_length(s.lexer),
                     token |-> [tok EXCEPT !.token_type = s.token_type,
                                           !.name = s.name,
                                           !.value = s.value,
                                           !.length = token_length(s.lexer)],
                     err |-> NoErr]

RECURSIVE SkipWhitespace(_, _)
\* the loop of the tokenize closure: call next_token again while the token is
\* Whitespace
SkipWhitespace(r, overflow_checks) ==
    IF r.status = "ok" /\ r.token.token_type = "Whitespace"
    THEN SkipWhitespace(next_token(r.lexer, overflow_checks), overflow_checks)
    ELSE r

\* one call of the closure tokenize returns; a ScanEof token stands for None
tokenize_next(lx, overflow_checks) ==
    SkipWhitespace(next_token(lx, overflow_checks), overflow_checks)


(***************************************************************************)
(* src/src/ast.rs                                                          *)
(***************************************************************************)
IntLiteralExprAST(v) == [kind |-> "IntLiteralExprAST", value |-> v]
VariableExprAST(n) == [kind |-> "VariableExprAST", name |-> n]
BinaryExprAST(o, l, r) == [kind |-> "BinaryExprAST", op |-> o, lhs |-> l, rhs |-> r]
SyscallExprAST(c, a) == [kind |-> "SyscallExprAST", calle |-> c, args |-> a]
AssignmentAST(v, e) == [kind |-> "AssignmentAST", var |-> v, assign |-> e]
NoAST == [kind |-> "none"]

\* TokenType::as_str
as_str(ty) ==
    IF ty = "Begin" THEN "begin"
    ELSE IF ty = "Comma" THEN ","
    ELSE IF ty = "End" THEN "end"
    ELSE IF ty = "Read" THEN "read"
    ELSE IF ty = "Write" THEN "write"
    ELSE IF ty = "LeftParen" THEN "("
    ELSE IF ty = "RightParen" THEN ")"
    ELSE IF ty = "Semicolon" THEN ";"
    ELSE IF ty = "OpAssign" THEN ":="
    ELSE IF ty = "OpPlus" THEN "+"
    ELSE IF ty = "OpMinus" THEN "-"
    ELSE ty

\* ASTBuilder::new
ASTBuilderNew == [pos |-> 0, current |-> TokenUnknown, current_string |-> ""]

\* ASTBuilder::next: pull the next token of the iterator, or Token::eof()
\* once it is exhausted (pos = Len(tokens) + 1 from then on)
builder_next(b) ==
    LET t == IF b.pos < Len(tokens) THEN tokens[b.pos + 1] ELSE TokenEof
    IN [pos |-> IF b.pos <= Len(tokens) THEN b.pos + 1 ELSE b.pos,
        current |-> t,
        current_string |-> as_str(t.token_type)]

\* the three outcomes of a parse function: Some(node), None, or a panic,
\* each with the builder as the call left it
Some(a, b) == [status |-> "Some", ast |-> a, b |-> b]
None(b) == [status |-> "None", ast |-> NoAST, b |-> b]
Panic(b) == [status |-> "Panic", ast |-> NoAST, b |-> b]

RECURSIVE parse_expression(_)
RECURSIVE parse_bin_op_rhs(_, _)
RECURSIVE parse_identifier(_)
RECURSIVE parse_arguments(_, _, _)
RECURSIVE parse_paren(_)
RECURSIVE parse_primary(_)

parse_expression(b) ==
    LET p == parse_primary(b)
    IN IF p.status = "Panic" THEN p
       ELSE IF p.status = "None" THEN parse_bin_op_rhs(p.b, IntLiteralExprAST(0))
       ELSE parse_bin_op_rhs(p.b, p.ast)

\* parse_bin_op_rhs with the right operand parsed as a whole expression
parse_bin_op_rhs_right_nested(b, lhs) ==
    IF b.current.token_type \notin {"OpPlus", "OpMinus"} THEN Some(lhs, b)
    ELSE LET bin_op == IF b.current.token_type = "OpPlus" THEN "Add" ELSE "Sub"
             rhs == parse_expression(builder_next(b))
         IN IF rhs.status # "Some" THEN rhs
            ELSE Some(BinaryExprAST(bin_op, lhs, rhs.ast), rhs.b)

parse_bin_op_rhs(b, lhs) ==
    IF b.current.token_type \notin {"OpPlus", "OpMinus"} THEN Some(lhs, b)
    ELSE LET bin_op == IF b.current.token_type = "OpPlus" THEN "Add" ELSE "Sub"
             rhs == parse_primary(builder_next(b))
         IN IF rhs.status # "Some" THEN rhs
            ELSE parse_bin_op_rhs(rhs.b, BinaryExprAST(bin_op, lhs, rhs.ast))

\* the argument loop of parse_identifier
parse_arguments(b, calle, args) ==
    LET arg == parse_expression(b)
    IN IF arg.status # "Some" THEN arg
       ELSE IF arg.b.current.token_type = "RightParen"
       THEN Some(SyscallExprAST(calle, Append(args, arg.ast)), builder_next(arg.b))
       ELSE IF arg.b.current.token_type # "Comma" THEN Panic(arg.b)
       ELSE parse_arguments(builder_next(arg.b), calle, Append(args, arg.ast))

parse_identifier(b) ==
    IF b.current.token_type = "Identifier"
    THEN Some(VariableExprAST(b.current.name), builder_next(b))
    ELSE IF b.current.token_type \notin {"Read", "Write"} THEN Panic(b)
    ELSE LET calle == b.current.token_type
             b2 == builder_next(builder_next(b))
         IN IF b2.current.token_type # "RightParen"
            THEN parse_arguments(b2, calle, <<>>)
            ELSE Some(SyscallExprAST(calle, <<>>), builder_next(b2))

parse_int_literal(b) ==
    IF b.current.token_type # "IntLiteral" THEN Panic(b)
    ELSE Some(IntLiteralExprAST(b.current.value), builder_next(b))

parse_paren(b) ==
    LET v == parse_expression(builder_next(b))
    IN IF v.status # "Some" THEN v
       ELSE IF v.b.current.token_type # "RightParen" THEN Panic(v.b)
       ELSE Some(v.ast, builder_next(v.b))

parse_primary(b) ==
    IF b.current.token_type \in {"Read", "Write", "Identifier"} THEN parse_identifier(b)
    ELSE IF b.current.token_type = "IntLiteral" THEN parse_int_literal(b)
    ELSE IF b.current.token_type = "LeftParen" THEN parse_paren(b)
    ELSE None(b)

parse_assign(b) ==
    IF b.current.token_type # "Identifier" THEN Panic(b)
    ELSE LET id == VariableExprAST(b.current.name)
             e == parse_expression(builder_next(builder_next(b)))
         IN IF e.status # "Some" THEN e
            ELSE Some(AssignmentAST(id, e.ast), e.b)

\* the statement part of one iteration of parse's loop (lines 224-227)
parse_statement(b) ==
    IF b.current.token_type = "Identifier" THEN parse_assign(b) ELSE parse_expression(b)

(***************************************************************************)
(* src/src/codegen.rs                                                      *)
(*                                                                         *)
(* An emitted line is a record: op is the mnemonic, reg the register (or   *)
(* the target of jal), arg the frame offset or the immediate.              *)
(***************************************************************************)
Instr(o, r, a) == [op |-> o, reg |-> r, arg |-> a]
MEM(offset) == [kind |-> "MEM", v |-> offset]
IMM(imm) == [kind |-> "IMM", v |-> imm]
NoOperand == [kind |-> "none", v |-> 0]

EmptyMap == [n \in {} |-> 0]

\* CodeGenerator::new
CodeGeneratorNew ==
    [frame_size |-> 32, frame_pointer |-> 32, symbol_map |-> EmptyMap, asm |-> <<>>]

GenOk(g, operand) == [status |-> "ok", g |-> g, operand |-> operand]
GenPanic(g) == [status |-> "panic", g |-> g, operand |-> NoOperand]

push(g, line) == [g EXCEPT !.asm = Append(@, line)]

\* "lw reg, offset($fp)" for a memory operand, "li reg, imm" for an immediate
LoadOperand(reg, operand) ==
    IF operand.kind = "MEM" THEN Instr("lw", reg, operand.v) ELSE Instr("li", reg, operand.v)

\* codegen of a VariableExprAST that inserts a fresh offset on every reference
codegen_variable_reinsert(g, name) ==
    GenOk([g EXCEPT !.frame_pointer = @ + 4,
                    !.symbol_map = (name :> g.frame_pointer) @@ @],
          MEM(g.frame_pointer))

\* codegen of a VariableExprAST that leaves the frame pointer where it is
codegen_variable_no_advance(g, name) ==
    IF name \in DOMAIN g.symbol_map
    THEN GenOk(g, MEM(g.symbol_map[name]))
    ELSE GenOk([g EXCEPT !.symbol_map = (name :> g.frame_pointer) @@ @],
               MEM(g.frame_pointer))

\* codegen of a VariableExprAST: symbol_map.entry(name).or_insert_with(..)
codegen_variable(g, name) ==
    IF name \in DOMAIN g.symbol_map
    THEN GenOk(g, MEM(g.symbol_map[name]))
    ELSE GenOk([g EXCEPT !.frame_pointer = @ + 4,
                         !.symbol_map = (name :> g.frame_pointer) @@ @],
               MEM(g.frame_pointer))

\* codegen of a BinaryExprAST that loads the right operand into $t0 and the
\* left one into $t1
codegen_binary_swapped(g, op, left_hand_side, right_hand_side) ==
    LET g1 == push(g, LoadOperand("$t0", right_hand_side))
        g2 == push(g1, LoadOperand("$t1", left_hand_side))
        g3 == push(g2, IF op = "Add" THEN Instr("add", "$t0", 0) ELSE Instr("sub", "$t0", 0))
        g4 == push(g3, Instr("sw", "$t0", g3.frame_pointer))
    IN GenOk([g4 EXCEPT !.frame_pointer = @ + 4], MEM(g4.frame_pointer))

\* codegen of a BinaryExprAST that stores its result at the frame pointer
\* and leaves the frame pointer where it is
codegen_binary_no_advance(g, op, left_hand_side, right_hand_side) ==
    LET g1 == push(g, LoadOperand("$t0", left_hand_side))
        g2 == push(g1, LoadOperand("$t1", right_hand_side))
        g3 == push(g2, IF op = "Add" THEN Instr("add", "$t0", 0) ELSE Instr("sub", "$t0", 0))
        g4 == push(g3, Instr("sw", "$t0", g3.frame_pointer))
    IN GenOk(g4, MEM(g4.frame_pointer))

\* codegen of a BinaryExprAST once both operands are evaluated
codegen_binary(g, op, left_hand_side, right_hand_side) ==
    LET g1 == push(g, LoadOperand("$t0", left_hand_side))
        g2 == push(g1, LoadOperand("$t1", right_hand_side))
        g3 == push(g2, IF op = "Add" THEN Instr("add", "$t0", 0) ELSE Instr("sub", "$t0", 0))
        g4 == push(g3, Instr("sw", "$t0", g3.frame_pointer))
    IN GenOk([g4 EXCEPT !.frame_pointer = @ + 4], MEM(g4.frame_pointer))

RECURSIVE codegen(_, _)
codegen(g, expr) ==
    IF expr.kind = "VariableExprAST" THEN codegen_variable(g, expr.name)
    ELSE IF expr.kind = "IntLiteralExprAST" THEN GenOk(g, IMM(expr.value))
    ELSE IF expr.kind = "BinaryExprAST" THEN
        LET l == codegen(g, expr.lhs)
        IN IF l.status = "panic" THEN l
           ELSE LET r == codegen(l.g, expr.rhs)
                IN IF r.status = "panic" THEN r
                   ELSE codegen_binary(r.g, expr.op, l.operand, r.operand)
    ELSE GenPanic(g)

RECURSIVE generate_read(_, _)
\* generate_functions, the loop over the arguments of read
generate_read(g, args) ==
    IF args = <<>> THEN GenOk(g, NoOperand)
    ELSE LET e == codegen(g, Head(args))
         IN IF e.status = "panic" THEN e
            ELSE IF e.operand.kind = "MEM"
            THEN generate_read(push(push(e.g, Instr("jal", "read", 0)),
                                    Instr("sw", "$v0", e.operand.v)),
                               Tail(args))
            ELSE generate_read(e.g, Tail(args))

RECURSIVE generate_write(_, _)
\* generate_functions, the loop over the arguments of write
generate_write(g, args) ==
    IF args = <<>> THEN GenOk(g, NoOperand)
    ELSE LET e == codegen(g, Head(args))
         IN IF e.status = "panic" THEN e
            ELSE generate_write(push(push(e.g, LoadOperand("$a0", e.operand)),
                                     Instr("jal", "write", 0)),
                                Tail(args))

\* generate_functions, the AssignmentAST arm
generate_assignment(g, var, assign) ==
    LET v == codegen(g, var)
    IN IF v.status = "panic" THEN v
       ELSE LET left_side == IF v.operand.kind = "MEM" THEN v.operand.v ELSE 0
                a == codegen(v.g, assign)
            IN IF a.status = "panic" THEN a
               ELSE GenOk(push(push(a.g, LoadOperand("$t0", a.operand)),
                               Instr("sw", "$t0", left_side)),
                          NoOperand)

generate_functions(g, expr) ==
    IF expr.kind = "SyscallExprAST" THEN
        IF expr.calle = "Read" THEN generate_read(g, expr.args)
        ELSE generate_write(g, expr.args)
    ELSE IF expr.kind = "AssignmentAST" THEN generate_assignment(g, expr.var, expr.assign)
    ELSE GenPanic(g)

\* a prologue that allocates the base frame only, whatever size it is given
main_prologue_base_frame(stackframe_size) == CodeGeneratorNew.frame_size

\* main_prologue / main_epilogue: the frame size each is formatted with
main_prologue(stackframe_size) == stackframe_size
main_epilogue(stackframe_size) == stackframe_size

NoOutput == [prologue |-> 0, body |-> <<>>, epilogue |-> 0]

vars == <<mode, lexvars, parsevars, genvars, tick>>

(***************************************************************************)
(* The lexer driven by its two callers: the test driver test_loop, which   *)
(* calls next_token until ScanEof and then three more times, and the       *)
(* iterator returned by tokenize.                                          *)
(***************************************************************************)
MaxPieces == 3

BigLiteral == <<57, 57, 57, 57, 57, 57, 57, 57, 57, 57>>

\* the lexemes the generated source texts are put together from:
\* a 1 space newline - e-acute : = ; end
LexPieces ==
    {<<97>>, <<49>>, <<32>>, <<10>>, <<45>>, <<233>>, <<58>>, <<61>>, <<59>>, KwEnd}

\* the source texts of the lexer's own tests (handle_white_space,
\* handle_error_keyword, handle_nonexist_char, handle_a_plus_b)
SrcHandleWhiteSpace ==
    <<10, 10, 32, 32, 32, 32, 32, 32, 32, 32, 98, 101, 103, 105, 110, 32, 101, 110,
    100, 10, 10, 10, 32, 32, 32, 32, 32, 32, 32, 32>>

SrcHandleErrorKeyword ==
    <<10, 10, 32, 32, 32, 32, 32, 32, 32, 32, 49, 101, 103, 105, 110, 32, 101, 110,
    100, 10, 10, 10, 32, 32, 32, 32, 32, 32, 32, 32>>

SrcHandleNonexistChar ==
    <<10, 32, 32, 32, 32, 32, 32, 32, 32, 98, 101, 103, 105, 110, 32, 42, 42, 42,
    42, 40, 41, 10, 32, 32, 32, 32, 32, 32, 32, 32, 101, 110, 100, 10, 32, 32, 32,
    32, 32, 32, 32, 32>>

SrcHandleAPlusB ==
    <<32, 32, 98, 101, 103, 105, 110, 32, 114, 101, 97, 100, 40, 97, 44, 32, 98, 41,
    59, 32, 119, 114, 105, 116, 101, 40, 97, 32, 43, 32, 98, 41, 59, 32, 101, 110,
    100>>

\* texts that reach the remaining arms of next_token: a literal beyond i32,
\* a no-break space, a three-byte character, and the characters on which
\* White_Space and Pattern_White_Space differ (U+00A0, U+200E, U+200F,
\* U+3000) next to ones on which they agree (space, U+0085, U+2028)
ExtraSources ==
    {SrcHandleWhiteSpace, SrcHandleErrorKeyword, SrcHandleNonexistChar,
     SrcHandleAPlusB, BigLiteral, <<97, 160, 44, 41>>, <<8364, 42>>,
     KwBegin \o <<32>> \o KwWrite \o <<40, 49, 41>>,
     <<160>>, <<8206>>, <<32, 8207>>, <<97, 12288, 97>>, <<133, 8232, 9, 97>>}

RECURSIVE Concats(_)
Concats(n) ==
    IF n = 0 THEN {<<>>}
    ELSE LET shorter == Concats(n - 1)
         IN shorter \cup {s \o p : s \in shorter, p \in LexPieces}

LexSources == Concats(MaxPieces) \cup ExtraSources

InitLexerVars(content) ==
    /\ source = content
    /\ lexer = LexerNew(content)
    /\ token = TokenUnknown
    /\ lex_pc = "loop"
    /\ lex_err = NoErr
    /\ count = 0

IdleLexer ==
    /\ source = <<>>
    /\ lexer = [len_remaining |-> 0, chars |-> 0, line |-> 1, column |-> 1, offset |-> 0]
    /\ token = TokenUnknown
    /\ lex_pc = "idle"
    /\ lex_err = NoErr
    /\ count = 0

IdleParser ==
    /\ tokens = <<>>
    /\ builder = ASTBuilderNew
    /\ p_vec = <<>>
    /\ program_start = FALSE
    /\ parse_pc = "idle"
    /\ p_span = <<>>

IdleCodegen ==
    /\ statements = <<>>
    /\ stmt_idx = 0
    /\ cg = CodeGeneratorNew
    /\ gen_pc = "idle"
    /\ output = NoOutput

InitLexer ==
    /\ tick = FALSE
    /\ mode \in {"test_loop", "tokenize"}
    /\ \E content \in LexSources : InitLexerVars(content)
    /\ IdleParser
    /\ IdleCodegen

\* test_loop, one iteration of the outer loop: a call of next_token
TestLoopNext ==
    /\ mode = "test_loop"
    /\ lex_pc = "loop"
    /\ \E overflow_checks \in BOOLEAN :
         LET r == next_token(lexer, overflow_checks)
         IN /\ lexer' = r.lexer
            /\ token' = r.token
            /\ lex_err' = r.err
            /\ lex_pc' = IF r.status = "panic" THEN "panicked"
                         ELSE IF r.token.token_type = "ScanEof" THEN "eof_check"
                         ELSE "loop"
            /\ count' = IF r.status = "ok" /\ r.token.token_type = "ScanEof"
                        THEN 3 ELSE count
    /\ tick' = ~tick
    /\ UNCHANGED <<mode, source, parsevars, genvars>>

\* test_loop, one iteration of the inner loop: next_token must return
\* ScanEof again (assert_eq), three times
TestLoopEofCheck ==
    /\ mode = "test_loop"
    /\ lex_pc = "eof_check"
    /\ count > 0
    /\ \E overflow_checks \in BOOLEAN :
         LET r == next_token(lexer, overflow_checks)
         IN /\ lexer' = r.lexer
            /\ token' = r.token
            /\ IF r.status = "panic"
               THEN lex_pc' = "panicked" /\ lex_err' = r.err /\ count' = count
               ELSE IF r.token.token_type # "ScanEof"
               THEN /\ lex_pc' = "panicked"
                    /\ lex_err' = [kind |-> "assertion_failed", line |-> 0,
                                   column |-> 0, len |-> 0]
                    /\ count' = count
               ELSE /\ lex_pc' = IF count = 1 THEN "returned" ELSE "eof_check"
                    /\ lex_err' = lex_err
                    /\ count' = count - 1
    /\ tick' = ~tick
    /\ UNCHANGED <<mode, source, parsevars, genvars>>

\* one call of next() on the iterator tokenize returns
TokenizeNext ==
    /\ mode = "tokenize"
    /\ lex_pc = "loop"
    /\ \E overflow_checks \in BOOLEAN :
         LET r == tokenize_next(lexer, overflow_checks)
         IN /\ lexer' = r.lexer
            /\ token' = r.token
            /\ lex_err' = r.err
            /\ lex_pc' = IF r.status = "panic" THEN "panicked" ELSE "loop"
    /\ tick' = ~tick
    /\ UNCHANGED <<mode, source, count, parsevars, genvars>>

NextLexer == TestLoopNext \/ TestLoopEofCheck \/ TokenizeNext

(***************************************************************************)
(* The parser: ASTBuilder::parse over the tokens an iterator yields, one   *)
(* iteration of its loop per step.  The iterator returned by tokenize can  *)
(* yield every token type but Whitespace, Unknown and ScanEof, in any      *)
(* order (two tokens can always be separated by whitespace).               *)
(***************************************************************************)
MaxTokens == 3
MaxOps == 2

Tok(ty) == [TokenUnknown EXCEPT !.token_type = ty]
TIdent(n) == [TokenUnknown EXCEPT !.token_type = "Identifier", !.name = n]
TInt(v) == [TokenUnknown EXCEPT !.token_type = "IntLiteral", !.value = v]

NameA == <<97>>
NameB == <<98>>

TokenAlphabet ==
    {Tok("Begin"), Tok("End"), Tok("Read"), TIdent(NameA), TInt(1),
     Tok("LeftParen"), Tok("RightParen"), Tok("Semicolon"), Tok("Comma"),
     Tok("OpAssign"), Tok("OpPlus")}

RECURSIVE TokenSeqs(_)
\* every token sequence of length at most n
TokenSeqs(n) ==
    IF n = 0 THEN {<<>>}
    ELSE LET shorter == TokenSeqs(n - 1)
         IN shorter \cup {Append(s, t) : s \in shorter, t \in TokenAlphabet}

\* every short token sequence, as it is and after a leading begin
ShortInputs ==
    TokenSeqs(MaxTokens) \cup {<<Tok("Begin")>> \o s : s \in TokenSeqs(MaxTokens)}

ChainOperands == {TIdent(NameA), TIdent(NameB), TInt(1)}

RECURSIVE ChainTails(_)
\* the sequences (op primary)^j, j <= k
ChainTails(k) ==
    IF k = 0 THEN {<<>>}
    ELSE LET shorter == ChainTails(k - 1)
         IN shorter \cup {t \o <<o, q>> : t \in shorter,
                                          o \in {Tok("OpPlus"), Tok("OpMinus")},
                                          q \in ChainOperands}

\* begin [a :=] p1 op1 p2 ... [; end]
ChainInputs ==
    {<<Tok("Begin")>> \o pre \o <<q>> \o t \o post :
        pre \in {<<>>, <<TIdent(NameA), Tok("OpAssign")>>},
        q \in ChainOperands,
        t \in ChainTails(MaxOps),
        post \in {<<>>, <<Tok("Semicolon"), Tok("End")>>}}

TokAssign == <<TIdent(NameA), Tok("OpAssign"), TInt(1)>>
TokRead == <<Tok("Read"), Tok("LeftParen"), TIdent(NameB), Tok("RightParen")>>

Fragments ==
    {<<>>, TokAssign, TokAssign \o <<Tok("Semicolon")>>,
     TokRead, TokRead \o <<Tok("Semicolon")>>,
     <<TIdent(NameA)>>, <<Tok("Read")>>, <<TInt(1), Tok("Semicolon")>>}

\* text before begin, a body, end, text after end
RegionInputs ==
    {pre \o <<Tok("Begin")>> \o body \o <<Tok("End")>> \o post :
        pre \in Fragments, body \in Fragments, post \in Fragments}

\* the parser's own tests: "begin read(a, b); write(a + b); end" and
\* "begin a := 1 + 2; end"
ParserTestInputs ==
    {<<Tok("Begin"), Tok("Read"), Tok("LeftParen"), TIdent(NameA), Tok("Comma"),
       TIdent(NameB), Tok("RightParen"), Tok("Semicolon"), Tok("Write"),
       Tok("LeftParen"), TIdent(NameA), Tok("OpPlus"), TIdent(NameB),
       Tok("RightParen"), Tok("Semicolon"), Tok("End")>>,
     <<Tok("Begin"), TIdent(NameA), Tok("OpAssign"), TInt(1), Tok("OpPlus"),
       TInt(2), Tok("Semicolon"), Tok("End")>>}

\* streams with the tokens the short sequences leave out: write, `-` and
\* a comment (tokenize yields comments) before, inside and after a statement
TriviaInputs ==
    {<<Tok("Begin"), Tok("LineComment"), TIdent(NameA), Tok("OpAssign"), TInt(1),
       Tok("LineComment"), Tok("OpMinus"), TInt(1), Tok("Semicolon"),
       Tok("LineComment"), Tok("End")>>,
     <<Tok("LineComment"), Tok("Begin"), Tok("Write"), Tok("LeftParen"),
       TIdent(NameA), Tok("OpMinus"), TInt(1), Tok("RightParen"), Tok("Semicolon"),
       Tok("End")>>,
     <<Tok("Begin"), Tok("Write"), Tok("LeftParen"), TInt(1), Tok("LineComment"),
       Tok("RightParen")>>,
     <<Tok("Begin"), Tok("Write")>>,
     <<Tok("Begin"), TInt(1), Tok("OpMinus")>>}

ParserInputs ==
    ShortInputs \cup ChainInputs \cup RegionInputs \cup ParserTestInputs
    \cup TriviaInputs

InitParser ==
    /\ tick = FALSE
    /\ mode = "parse"
    /\ tokens \in ParserInputs
    /\ builder = ASTBuilderNew
    /\ p_vec = <<>>
    /\ program_start = FALSE
    /\ parse_pc = "loop"
    /\ p_span = <<>>
    /\ IdleLexer
    /\ IdleCodegen

\* the token parse's loop looks at after its self.next()
Lookahead == builder_next(builder).current.token_type

\* ScanEof => break
ParseBreak ==
    /\ mode = "parse"
    /\ parse_pc = "loop"
    /\ Lookahead = "ScanEof"
    /\ builder' = builder_next(builder)
    /\ parse_pc' = "returned"
    /\ tick' = ~tick
    /\ UNCHANGED <<mode, tokens, p_vec, program_start, p_span, lexvars, genvars>>

\* Begin => program_start = true
ParseBegin ==
    /\ mode = "parse"
    /\ parse_pc = "loop"
    /\ Lookahead = "Begin"
    /\ builder' = builder_next(builder)
    /\ program_start' = TRUE
    /\ tick' = ~tick
    /\ UNCHANGED <<mode, tokens, p_vec, parse_pc, p_span, lexvars, genvars>>

\* End => program_start = false
ParseEnd ==
    /\ mode = "parse"
    /\ parse_pc = "loop"
    /\ Lookahead = "End"
    /\ builder' = builder_next(builder)
    /\ program_start' = FALSE
    /\ tick' = ~tick
    /\ UNCHANGED <<mode, tokens, p_vec, parse_pc, p_span, lexvars, genvars>>

\* Semicolon, LineComment, or any other token while !program_start => continue
ParseSkip ==
    /\ mode = "parse"
    /\ parse_pc = "loop"
    /\ \/ Lookahead \in {"Semicolon", "LineComment"}
       \/ Lookahead \notin {"ScanEof", "Begin", "End"} /\ ~program_start
    /\ builder' = builder_next(builder)
    /\ tick' = ~tick
    /\ UNCHANGED <<mode, tokens, p_vec, program_start, parse_pc, p_span, lexvars, genvars>>

\* a statement: parse_assign or parse_expression, then p_vec.push(v.unwrap())
ParseStatement ==
    /\ mode = "parse"
    /\ parse_pc = "loop"
    /\ Lookahead \notin {"ScanEof", "Begin", "End", "Semicolon", "LineComment"}
    /\ program_start
    /\ LET b1 == builder_next(builder)
           v == parse_statement(b1)
       IN /\ builder' = v.b
          /\ IF v.status = "Some"
             THEN /\ p_vec' = Append(p_vec, v.ast)
                  /\ p_span' = Append(p_span, [first |-> b1.pos, after |-> v.b.pos])
                  /\ parse_pc' = parse_pc
             ELSE /\ parse_pc' = "panicked"
                  /\ UNCHANGED <<p_vec, p_span>>
    /\ tick' = ~tick
    /\ UNCHANGED <<mode, tokens, program_start, lexvars, genvars>>

NextParser == ParseBreak \/ ParseBegin \/ ParseEnd \/ ParseSkip \/ ParseStatement

(***************************************************************************)
(* The code generator: CodeGenerator::generate over a vector of statement  *)
(* nodes, one statement of its loop per step, then the final assembly.     *)
(***************************************************************************)
MaxStmts == 2

Operators == {"Add", "Sub"}
Leaves == {VariableExprAST(NameA), VariableExprAST(NameB), IntLiteralExprAST(1)}
FlatBinaries ==
    {BinaryExprAST(o, l, r) : o \in Operators,
                              l \in {VariableExprAST(NameA), IntLiteralExprAST(1)},
                              r \in {VariableExprAST(NameB), IntLiteralExprAST(1)}}
NestedBinaries ==
    {BinaryExprAST("Sub", BinaryExprAST("Add", VariableExprAST(NameA), IntLiteralExprAST(1)),
                   VariableExprAST(NameB)),
     BinaryExprAST("Add", IntLiteralExprAST(1),
                   BinaryExprAST("Sub", VariableExprAST(NameA), VariableExprAST(NameB)))}
Expressions == Leaves \cup FlatBinaries \cup NestedBinaries

ReadCall == SyscallExprAST("Read", <<VariableExprAST(NameB)>>)

\* a := 1 + 2, the statement of the parser's test handle_assign_a
AssignOnePlusTwo ==
    AssignmentAST(VariableExprAST(NameA),
                  BinaryExprAST("Add", IntLiteralExprAST(1), IntLiteralExprAST(2)))

\* the statements the programs are put together from: assignments, read and
\* write calls, and the nodes the parser can produce that the generator
\* rejects (a bare expression, a call inside an expression)
Statements ==
    {AssignmentAST(VariableExprAST(NameA), e) : e \in Expressions}
    \cup {AssignmentAST(VariableExprAST(NameB), e) : e \in Leaves \cup NestedBinaries}
    \cup {SyscallExprAST("Read", a) :
            a \in {<<>>, <<VariableExprAST(NameA)>>,
                   <<VariableExprAST(NameB), VariableExprAST(NameA)>>,
                   <<IntLiteralExprAST(1)>>}}
    \cup {SyscallExprAST("Write", a) :
            a \in {<<>>, <<VariableExprAST(NameA)>>, <<IntLiteralExprAST(1)>>,
                   <<VariableExprAST(NameB), VariableExprAST(NameA)>>,
                   <<BinaryExprAST("Add", VariableExprAST(NameA), VariableExprAST(NameB))>>}}
    \cup {BinaryExprAST("Add", IntLiteralExprAST(1), IntLiteralExprAST(1)),
          AssignmentAST(VariableExprAST(NameA), ReadCall)}
    \cup {AssignOnePlusTwo}

RECURSIVE Programs(_)
\* every vector of at most n statements
Programs(n) ==
    IF n = 0 THEN {<<>>}
    ELSE LET shorter == Programs(n - 1)
         IN shorter \cup {Append(s, t) : s \in shorter, t \in Statements}

InitCodegen ==
    /\ tick = FALSE
    /\ mode = "generate"
    /\ statements \in Programs(MaxStmts)
    /\ stmt_idx = 0
    /\ cg = CodeGeneratorNew
    /\ gen_pc = "loop"
    /\ output = NoOutput
    /\ IdleLexer
    /\ IdleParser

\* generate, one iteration of the loop: generate_functions(expr)
GenerateStatement ==
    /\ mode = "generate"
    /\ gen_pc = "loop"
    /\ stmt_idx < Len(statements)
    /\ LET r == generate_functions(cg, statements[stmt_idx + 1])
       IN /\ cg' = r.g
          /\ IF r.status = "ok"
             THEN stmt_idx' = stmt_idx + 1 /\ gen_pc' = gen_pc
             ELSE stmt_idx' = stmt_idx /\ gen_pc' = "panicked"
    /\ tick' = ~tick
    /\ UNCHANGED <<mode, statements, output, lexvars, parsevars>>

\* generate, after the loop: prologue, the emitted lines, epilogue, prelude
GenerateReturn ==
    /\ mode = "generate"
    /\ gen_pc = "loop"
    /\ stmt_idx = Len(statements)
    /\ output' = [prologue |-> main_prologue(cg.frame_pointer),
                  body |-> cg.asm,
                  epilogue |-> main_epilogue(cg.frame_pointer)]
    /\ gen_pc' = "returned"
    /\ tick' = ~tick
    /\ UNCHANGED <<mode, statements, stmt_idx, cg, lexvars, parsevars>>

NextCodegen == GenerateStatement \/ GenerateReturn

(***************************************************************************)
(* Specifications.                                                         *)
(***************************************************************************)
SpecLexer == InitLexer /\ [][NextLexer]_vars
SpecParser == InitParser /\ [][NextParser]_vars
SpecCodegen == InitCodegen /\ [][NextCodegen]_vars

\* a caller of the lexer or the parser is still in its loop
Running ==
    \/ mode = "test_loop" /\ lex_pc \in {"loop", "eof_check"}
    \/ mode = "tokenize" /\ lex_pc = "loop"
    \/ mode = "parse" /\ parse_pc = "loop"

\* the step of a running caller, seen through tick alone
Progress == Running /\ tick' = ~tick

\* the lexer's callers and the parser under the scheduling of the crate, a
\* single-threaded batch program: a caller that is in its loop takes its
\* next step.  Every step of NextLexer and NextParser is a Progress step.
SpecTermination ==
    /\ InitLexer \/ InitParser
    /\ [][NextLexer \/ NextParser]_vars
    /\ WF_tick(Progress)

Init == InitLexer \/ InitParser \/ InitCodegen
Next == NextLexer \/ NextParser \/ NextCodegen
Spec == Init /\ [][Next]_vars

(***************************************************************************)
(* Properties of the lexer.                                                *)
(***************************************************************************)
\* the 1-based index of the character that starts at byte offset off
CharAtByte(s, off) ==
    CHOOSE i \in 1..(Len(s) + 1) : ByteLen(SubSeq(s, 1, i - 1)) = off

\* the 1-based line and character column of the i-th character of s
LineOf(s, i) == 1 + Cardinality({j \in 1..(i - 1) : s[j] = 10})
ColumnOf(s, i) ==
    LET newlines == {j \in 1..(i - 1) : s[j] = 10}
    IN IF newlines = {} THEN i ELSE i - SetMax(newlines)

\* C3: the iterator returned by tokenize never yields a Whitespace token nor
\* a LineComment token.
C3_TokenizeYieldsNoTrivia ==
    (mode = "tokenize" /\ lex_pc = "loop")
        => token.token_type \notin {"Whitespace", "LineComment"}

\* a run of characters that starts with a digit (at the start of the text or
\* after a character that cannot continue an identifier) and continues with
\* digits up to a letter
HasDigitLetterRun(s) ==
    \E i \in 1..Len(s) : \E j \in (i + 1)..Len(s) :
        /\ i = 1 \/ ~is_identifier_continue(s[i - 1])
        /\ \A k \in i..(j - 1) : is_digit(s[k])
        /\ char_is_ascii_alphabetic(s[j])

HasComment(s) == \E i \in 1..(Len(s) - 1) : s[i] = 45 /\ s[i + 1] = 45

\* C6: on a source that contains a digit-then-letters run (outside comments)
\* test_loop never sees next_token return ScanEof: the lexer panics first.
C6_DigitLetterRunRejected ==
    (mode = "test_loop" /\ HasDigitLetterRun(source) /\ ~HasComment(source))
        => lex_pc \notin {"eof_check", "returned"}

\* C7: when next_token fails on a character that can start no token, the
\* failure is the syntax error and its line and column are the 1-based line
\* and character column of that character (the one at the token's start).
C7_SyntaxErrorPosition ==
    (lex_pc = "panicked" /\ lex_err.kind \in {"syntax_error", "arithmetic_overflow"})
        => /\ lex_err.kind = "syntax_error"
           /\ lex_err.line = LineOf(source, CharAtByte(source, lexer.offset))
           /\ lex_err.column = ColumnOf(source, CharAtByte(source, lexer.offset))

(***************************************************************************)
(* Properties of the parser.                                               *)
(***************************************************************************)
TokenAt(i) == IF i \in 1..Len(tokens) THEN tokens[i] ELSE TokenEof

\* the index of the first token of the expression of the k-th node: after
\* "identifier :=" when the statement starts with an identifier
ExprStart(k) ==
    IF TokenAt(p_span[k].first).token_type = "Identifier"
    THEN p_span[k].first + 2
    ELSE p_span[k].first

PrimaryStart == {"Identifier", "Read", "Write", "IntLiteral", "LeftParen"}

\* C4: a statement that starts with an identifier produces a node only if the
\* token after the identifier is `:=`.
C4_AssignRequiresOpAssign ==
    \A k \in DOMAIN p_vec :
        TokenAt(p_span[k].first).token_type = "Identifier"
            => TokenAt(p_span[k].first + 1).token_type = "OpAssign"

\* C5: no statement node is produced when the token at the place where its
\* expression is required (the right-hand side of `:=`, or the start of a
\* bare statement) cannot start a primary.
C5_MalformedPrimaryIsFatal ==
    \A k \in DOMAIN p_vec :
        (TokenAt(p_span[k].first).token_type = "Identifier"
            => TokenAt(p_span[k].first + 1).token_type = "OpAssign")
        => TokenAt(ExprStart(k)).token_type \in PrimaryStart

\* the first begin, and the first end after it (0 when there is none)
BeginIndex ==
    LET bs == {i \in 1..Len(tokens) : tokens[i].token_type = "Begin"}
    IN IF bs = {} THEN 0 ELSE SetMin(bs)
MatchingEndIndex ==
    LET es == {i \in 1..Len(tokens) : tokens[i].token_type = "End" /\ i > BeginIndex}
    IN IF BeginIndex = 0 \/ es = {} THEN 0 ELSE SetMin(es)

\* C10: every statement node comes from a statement that starts after begin
\* and, when the matching end is in the token stream, before that end.
C10_NodesOnlyInsideRegion ==
    \A k \in DOMAIN p_vec :
        /\ BeginIndex # 0
        /\ p_span[k].first > BeginIndex
        /\ MatchingEndIndex # 0 => p_span[k].first < MatchingEndIndex

\* tokens s..e are primary (op primary)* with variables and literals as the
\* primaries
IsOperandToken(t) == t.token_type \in {"Identifier", "IntLiteral"}
IsOperatorToken(t) == t.token_type \in {"OpPlus", "OpMinus"}
IsFlatChain(s, e) ==
    /\ s <= e
    /\ e <= Len(tokens)
    /\ (e - s) % 2 = 0
    /\ \A i \in s..e : IF (i - s) % 2 = 0 THEN IsOperandToken(tokens[i])
                                          ELSE IsOperatorToken(tokens[i])

OperandOf(t) ==
    IF t.token_type = "Identifier" THEN VariableExprAST(t.name)
    ELSE IntLiteralExprAST(t.value)

RECURSIVE LeftFold(_, _)
\* the tree (((p1 op1 p2) op2 p3) ... pn) of the chain in tokens s..e
LeftFold(s, e) ==
    IF e = s THEN OperandOf(tokens[s])
    ELSE BinaryExprAST(IF tokens[e - 1].token_type = "OpPlus" THEN "Add" ELSE "Sub",
                       LeftFold(s, e - 2), OperandOf(tokens[e]))

ExprOf(node) == IF node.kind = "AssignmentAST" THEN node.assign ELSE node

\* C9: the expression of a node whose tokens are a chain p1 op1 p2 ... pn is
\* the left-nested tree of that chain, and a chain is never cut short before
\* a `+` or `-`.
C9_LeftFold ==
    \A k \in DOMAIN p_vec :
        /\ ~IsOperatorToken(TokenAt(p_span[k].after))
        /\ IsFlatChain(ExprStart(k), p_span[k].after - 1)
            => ExprOf(p_vec[k]) = LeftFold(ExprStart(k), p_span[k].after - 1)

\* a chain of three operands has been parsed into a node
C9_Witness ==
    \E k \in DOMAIN p_vec :
        /\ IsFlatChain(ExprStart(k), p_span[k].after - 1)
        /\ p_span[k].after - 1 >= ExprStart(k) + 4
        /\ ExprOf(p_vec[k]).kind = "BinaryExprAST"
        /\ ExprOf(p_vec[k]).lhs.kind = "BinaryExprAST"
        /\ ExprOf(p_vec[k]).op # ExprOf(p_vec[k]).lhs.op

(***************************************************************************)
(* Properties of the code generator.                                       *)
(***************************************************************************)
RECURSIVE ConcatAll(_)
ConcatAll(ss) == IF ss = <<>> THEN <<>> ELSE Head(ss) \o ConcatAll(Tail(ss))

RECURSIVE References(_)
\* the variable names of a node in the order the program text refers to them
References(e) ==
    IF e.kind = "VariableExprAST" THEN <<e.name>>
    ELSE IF e.kind = "BinaryExprAST" THEN References(e.lhs) \o References(e.rhs)
    ELSE IF e.kind = "SyscallExprAST"
    THEN ConcatAll([i \in DOMAIN e.args |-> References(e.args[i])])
    ELSE IF e.kind = "AssignmentAST" THEN References(e.var) \o References(e.assign)
    ELSE <<>>

RECURSIVE Distinct(_)
\* a sequence without the repetitions of earlier elements
Distinct(q) ==
    IF q = <<>> THEN <<>>
    ELSE LET front == SubSeq(q, 1, Len(q) - 1)
             d == Distinct(front)
         IN IF \E i \in DOMAIN front : front[i] = q[Len(q)] THEN d
            ELSE Append(d, q[Len(q)])

\* the distinct variables of the statements compiled so far, in the order of
\* their first reference
FirstReferences ==
    Distinct(ConcatAll([i \in 1..stmt_idx |-> References(statements[i])]))

\* the frame slots that hold the result of a binary expression: the target
\* of the store emitted after each add / sub
BinarySlots ==
    {cg.asm[j + 1].arg : j \in {i \in 1..(Len(cg.asm) - 1) : cg.asm[i].op \in {"add", "sub"}}}

\* C1: a name that is mapped keeps its offset in every later step of the
\* same CodeGenerator.
C1_SymbolStable ==
    [][\A n \in DOMAIN cg.symbol_map :
          n \in DOMAIN cg'.symbol_map /\ cg'.symbol_map[n] = cg.symbol_map[n]]_vars

\* a later statement has referred again to a variable mapped by an earlier one
C1_Witness ==
    /\ stmt_idx = 2
    /\ gen_pc = "loop"
    /\ \E n \in DOMAIN cg.symbol_map :
         /\ \E i \in DOMAIN References(statements[1]) : References(statements[1])[i] = n
         /\ \E i \in DOMAIN References(statements[2]) : References(statements[2])[i] = n

\* C2 as claimed: the i-th variable in first-reference order is mapped to
\* 32 + 4 * (i - 1), whatever expressions were compiled in between.
C2_DenseOffsets ==
    (mode = "generate" /\ gen_pc # "panicked")
        => \A i \in DOMAIN FirstReferences :
              /\ FirstReferences[i] \in DOMAIN cg.symbol_map
              /\ cg.symbol_map[FirstReferences[i]] = 32 + 4 * (i - 1)

\* C2 as amended: the mapped names are the referenced ones; in first-reference
\* order their offsets are strictly increasing multiples of 4 from base 32
\* below the frame pointer, never the slot of a binary result, and the i-th
\* one is 32 + 4 * (i - 1) plus 4 for every binary result stored below it.
C2_OffsetsInOrder ==
    (mode = "generate" /\ gen_pc # "panicked")
        => /\ DOMAIN cg.symbol_map = {FirstReferences[i] : i \in DOMAIN FirstReferences}
           /\ \A i \in DOMAIN FirstReferences :
                LET off == cg.symbol_map[FirstReferences[i]]
                IN /\ off % 4 = 0
                   /\ off >= 32
                   /\ off < cg.frame_pointer
                   /\ off \notin BinarySlots
                   /\ off = 32 + 4 * (i - 1)
                            + 4 * Cardinality({b \in BinarySlots : b < off})
                   /\ \A j \in DOMAIN FirstReferences :
                        i < j => off < cg.symbol_map[FirstReferences[j]]

\* two variables have been mapped with the slot of a binary result between them
C2_Witness ==
    /\ mode = "generate"
    /\ gen_pc = "returned"
    /\ Len(FirstReferences) = 2
    /\ \E b \in BinarySlots :
         /\ cg.symbol_map[FirstReferences[1]] < b
         /\ b < cg.symbol_map[FirstReferences[2]]

(***************************************************************************)
(* Termination.                                                            *)
(***************************************************************************)
\* once next_token has returned ScanEof, the next call returns ScanEof again
\* and leaves the lexer as it was
EofIsStable ==
    (\/ mode = "test_loop" /\ lex_pc = "eof_check"
     \/ mode = "tokenize" /\ lex_pc = "loop" /\ token.token_type = "ScanEof")
        => /\ token'.token_type = "ScanEof"
           /\ lexer' = lexer
           /\ lex_pc' # "panicked"

\* C8: after ScanEof every later next_token returns ScanEof and consumes
\* nothing; test_loop and parse eventually stop (they return or panic).
C8_Termination ==
    /\ [][EofIsStable]_vars
    /\ (mode = "test_loop") ~> (lex_pc \in {"returned", "panicked"})
    /\ (mode = "parse") ~> (parse_pc \in {"returned", "panicked"})

\* parse has returned on a stream whose begin has no end and whose last
\* statement was cut off by the end of the stream
C8_Witness ==
    /\ mode = "parse"
    /\ parse_pc = "returned"
    /\ BeginIndex # 0
    /\ MatchingEndIndex = 0
    /\ p_vec # <<>>
    /\ p_span[Len(p_vec)].after = Len(tokens) + 1
    /\ tokens[Len(tokens)].token_type \in {"OpAssign", "LeftParen", "Comma"}

(***************************************************************************)
(* Emission of the syscalls.                                               *)
(***************************************************************************)
\* the statement the next iteration of generate's loop compiles
CurrentStatement == statements[stmt_idx + 1]

\* the lines a step appends to asm
Emitted == SubSeq(cg'.asm, Len(cg.asm) + 1, Len(cg'.asm))

\* the positions of "jal target" in a sequence of lines
JalPositions(lines, target) ==
    {i \in DOMAIN lines : lines[i].op = "jal" /\ lines[i].reg = target}

\* the k-th smallest member of a set of positions
KthOf(S, k) == CHOOSE p \in S : Cardinality({q \in S : q <= p}) = k

\* "jal read" then the store of $v0 to the offset of each variable, in order
ReadLines(args, map) ==
    ConcatAll([i \in DOMAIN args |->
                 <<Instr("jal", "read", 0), Instr("sw", "$v0", map[args[i].name])>>])

\* the k-th "jal write" of lines comes right after the load into $a0 of the
\* operand of arg: a variable's offset, a literal's value, or the slot the
\* evaluation of a binary expression has just stored its result to
WriteArgumentAt(lines, k, arg, map) ==
    LET p == KthOf(JalPositions(lines, "write"), k)
        start == IF k = 1 THEN 1 ELSE KthOf(JalPositions(lines, "write"), k - 1) + 1
    IN /\ p - 1 >= start
       /\ lines[p - 1].reg = "$a0"
       /\ IF arg.kind = "VariableExprAST"
          THEN lines[p - 1] = Instr("lw", "$a0", map[arg.name]) /\ p - 1 = start
          ELSE IF arg.kind = "IntLiteralExprAST"
          THEN lines[p - 1] = Instr("li", "$a0", arg.value) /\ p - 1 = start
          ELSE /\ p - 2 >= start
               /\ lines[p - 2].op = "sw" /\ lines[p - 2].reg = "$t0"
               /\ lines[p - 1] = Instr("lw", "$a0", lines[p - 2].arg)

\* a step that compiles a read or write statement without failing
CompilesSyscall(calle) ==
    /\ mode = "generate" /\ gen_pc = "loop" /\ stmt_idx < Len(statements)
    /\ stmt_idx' = stmt_idx + 1
    /\ CurrentStatement.kind = "SyscallExprAST"
    /\ CurrentStatement.calle = calle

\* C11: a read statement emits "jal read" and the store of $v0 to the
\* variable's offset for each variable argument in order; a write statement
\* emits for each argument its evaluation, one load of its operand into $a0
\* and "jal write"; the number of "jal read" / "jal write" lines is the number
\* of arguments; "begin read(a); write(a); end" emits exactly the read call,
\* the store to a's offset, the load of a's offset and the write call.
C11_SyscallEmission ==
    [][/\ CompilesSyscall("Read") =>
            LET args == CurrentStatement.args
            IN /\ Cardinality(JalPositions(Emitted, "read")) = Len(args)
               /\ JalPositions(Emitted, "write") = {}
               /\ (\A i \in DOMAIN args : args[i].kind = "VariableExprAST")
                     => Emitted = ReadLines(args, cg'.symbol_map)
       /\ CompilesSyscall("Write") =>
            LET args == CurrentStatement.args
            IN /\ Cardinality(JalPositions(Emitted, "write")) = Len(args)
               /\ JalPositions(Emitted, "read") = {}
               /\ Emitted # <<>> => Emitted[Len(Emitted)] = Instr("jal", "write", 0)
               /\ \A k \in DOMAIN args :
                     WriteArgumentAt(Emitted, k, args[k], cg'.symbol_map)
       /\ (/\ statements = <<SyscallExprAST("Read", <<VariableExprAST(NameA)>>),
                             SyscallExprAST("Write", <<VariableExprAST(NameA)>>)>>
           /\ gen_pc' = "returned")
            => output'.body = <<Instr("jal", "read", 0), Instr("sw", "$v0", 32),
                                Instr("lw", "$a0", 32), Instr("jal", "write", 0)>>
      ]_vars

(***************************************************************************)
(* Classification of whitespace.                                           *)
(***************************************************************************)
\* Unicode Pattern_White_Space: U+0009..U+000D, U+0020, U+0085, U+200E,
\* U+200F, U+2028, U+2029
Pattern_White_Space == (9..13) \cup {32, 133, 8206, 8207, 8232, 8233}

\* C12: is_whitespace is true exactly for the characters of
\* Pattern_White_Space, and next_token starts a Whitespace token exactly on
\* those characters: every character the lexer has consumed is classified
\* as Pattern_White_Space says, a token is a Whitespace token if and only if
\* its first character is in the set, and a Whitespace token is a maximal
\* run of characters of the set.
C12_PatternWhiteSpace ==
    mode = "test_loop" =>
        /\ \A i \in 1..lexer.chars :
              is_whitespace(source[i]) <=> source[i] \in Pattern_White_Space
        /\ (lex_pc = "loop" /\ token.length > 0) =>
              LET i == CharAtByte(source, token.offset)
                  j == CharAtByte(source, token.offset + token.length)
              IN /\ token.token_type = "Whitespace"
                        <=> source[i] \in Pattern_White_Space
                 /\ token.token_type = "Whitespace" =>
                       /\ \A k \in i..(j - 1) : source[k] \in Pattern_White_Space
                       /\ j <= Len(source) => source[j] \notin Pattern_White_Space

(***************************************************************************)
(* Frame slots of binary expressions.                                      *)
(***************************************************************************)
RECURSIVE BinaryNodes(_)
\* the number of BinaryExprAST nodes of a node
BinaryNodes(e) ==
    IF e.kind = "BinaryExprAST" THEN 1 + BinaryNodes(e.lhs) + BinaryNodes(e.rhs)
    ELSE IF e.kind = "SyscallExprAST"
    THEN LET RECURSIVE Sum(_)
             Sum(i) == IF i = 0 THEN 0 ELSE BinaryNodes(e.args[i]) + Sum(i - 1)
         IN Sum(Len(e.args))
    ELSE IF e.kind = "AssignmentAST" THEN BinaryNodes(e.var) + BinaryNodes(e.assign)
    ELSE 0

RECURSIVE BinaryNodesUpTo(_)
\* the number of BinaryExprAST nodes of the first n statements
BinaryNodesUpTo(n) ==
    IF n = 0 THEN 0 ELSE BinaryNodes(statements[n]) + BinaryNodesUpTo(n - 1)

\* the positions of the add / sub lines of asm
BinaryLines == {i \in 1..Len(cg.asm) : cg.asm[i].op \in {"add", "sub"}}

\* the offsets of the variables
VariableSlots == {cg.symbol_map[n] : n \in DOMAIN cg.symbol_map}

\* C13: every evaluation of a binary expression stores its result to a slot
\* of its own: the add / sub line is followed by the store of $t0 to a slot
\* that is a multiple of 4 from 32 below the frame pointer, later results get
\* higher slots, no slot is the offset of a variable, and the frame pointer
\* (the frame size generate writes) is 32 + 4 * (distinct variables + binary
\* nodes compiled).  The body of "begin a := 1 + 2; end" is li $t0 1,
\* li $t1 2, add, sw $t0 36, lw $t0 36, sw $t0 32.
C13_BinarySlots ==
    (mode = "generate" /\ gen_pc # "panicked")
        => /\ Cardinality(BinaryLines) = BinaryNodesUpTo(stmt_idx)
           /\ \A i \in BinaryLines :
                /\ i < Len(cg.asm)
                /\ cg.asm[i + 1].op = "sw" /\ cg.asm[i + 1].reg = "$t0"
                /\ cg.asm[i + 1].arg % 4 = 0
                /\ cg.asm[i + 1].arg >= 32
                /\ cg.asm[i + 1].arg < cg.frame_pointer
                /\ cg.asm[i + 1].arg \notin VariableSlots
                /\ \A j \in BinaryLines : i < j => cg.asm[i + 1].arg < cg.asm[j + 1].arg
           /\ cg.frame_pointer
                = 32 + 4 * (Len(FirstReferences) + BinaryNodesUpTo(stmt_idx))
           /\ gen_pc = "returned" =>
                /\ output.prologue = cg.frame_pointer
                /\ output.epilogue = cg.frame_pointer
           /\ (statements = <<AssignOnePlusTwo>> /\ gen_pc = "returned") =>
                output.body = <<Instr("li", "$t0", 1), Instr("li", "$t1", 2),
                                Instr("add", "$t0", 0), Instr("sw", "$t0", 36),
                                Instr("lw", "$t0", 36), Instr("sw", "$t0", 32)>>

\* generate has returned on a program with a nested binary expression (two
\* results, the inner one an operand of the outer) and a variable that was
\* mapped after a result was stored
C13_Witness ==
    /\ mode = "generate"
    /\ gen_pc = "returned"
    /\ \E i \in BinaryLines, j \in BinaryLines :
         /\ i < j
         /\ \E r \in {"$t0", "$t1"} : cg.asm[j - 1] = Instr("lw", r, cg.asm[i + 1].arg)
            \/ cg.asm[j - 2] = Instr("lw", "$t0", cg.asm[i + 1].arg)
    /\ \E v \in VariableSlots : \E i \in BinaryLines : cg.asm[i + 1].arg < v

(***************************************************************************)
(* Frame bounds.                                                           *)
(***************************************************************************)
\* the lines of a body that load from or store to the frame
FrameLines(lines) == {i \in DOMAIN lines : lines[i].op \in {"lw", "sw"}}

\* C14: for every program generate accepts, every offset of an lw / sw line
\* of the body is a multiple of 4, at least 32 and below the frame size of
\* the prologue, and the prologue and the epilogue have the same frame
\* size; while generate is still compiling the offsets emitted so far are
\* below the frame pointer.
C14_FrameBounds ==
    /\ (mode = "generate" /\ gen_pc = "loop") =>
          \A i \in FrameLines(cg.asm) :
             /\ cg.asm[i].arg % 4 = 0
             /\ cg.asm[i].arg >= 32
             /\ cg.asm[i].arg < cg.frame_pointer
    /\ (mode = "generate" /\ gen_pc = "returned") =>
          /\ output.body = cg.asm
          /\ output.prologue = output.epilogue
          /\ \A i \in FrameLines(output.body) :
                /\ output.body[i].arg % 4 = 0
                /\ output.body[i].arg >= 32
                /\ output.body[i].arg < output.prologue

\* generate has returned a body that loads from the last slot of a frame of
\* three slots or more and stores to its first slot
C14_Witness ==
    /\ mode = "generate"
    /\ gen_pc = "returned"
    /\ output.prologue >= 44
    /\ \E i \in FrameLines(output.body) :
          output.body[i].op = "lw" /\ output.body[i].arg = output.prologue - 4
    /\ \E i \in FrameLines(output.body) :
          output.body[i].op = "sw" /\ output.body[i].arg = 32

(***************************************************************************)
(* Execution of the emitted lines of an assignment.  A word is a signed    *)
(* 32-bit integer; sums and differences wrap, computed on 16-bit halves.   *)
(***************************************************************************)
Half == 2 ^ 16
I32Min == -I32Max - 1

\* a high half brought back into -2^15 .. 2^15 - 1
WrapHigh(h) == ((h + 32768) % Half) - 32768

\* x + y and x - y modulo 2^32, as signed 32-bit integers
WrappingAdd(x, y) ==
    LET lo == (x % Half) + (y % Half)
        hi == (x \div Half) + (y \div Half) + (lo \div Half)
    IN WrapHigh(hi) * Half + (lo % Half)

WrappingSub(x, y) ==
    LET lo == (x % Half) - (y % Half)
        hi == (x \div Half) - (y \div Half) + (lo \div Half)
    IN WrapHigh(hi) * Half + (lo % Half)

\* the machine: the frame memory (offset -> word) and the two registers
Machine(mem, t0, t1) == [mem |-> mem, t0 |-> t0, t1 |-> t1]

\* one line executed on the machine
Step(m, line) ==
    IF line.op = "li" THEN
        IF line.reg = "$t0" THEN [m EXCEPT !.t0 = line.arg] ELSE [m EXCEPT !.t1 = line.arg]
    ELSE IF line.op = "lw" THEN
        IF line.reg = "$t0" THEN [m EXCEPT !.t0 = m.mem[line.arg]]
        ELSE [m EXCEPT !.t1 = m.mem[line.arg]]
    ELSE IF line.op = "add" THEN [m EXCEPT !.t0 = WrappingAdd(m.t0, m.t1)]
    ELSE IF line.op = "sub" THEN [m EXCEPT !.t0 = WrappingSub(m.t0, m.t1)]
    ELSE IF line.op = "sw" THEN
        [m EXCEPT !.mem[line.arg] = IF line.reg = "$t0" THEN m.t0 ELSE m.t1]
    ELSE m

RECURSIVE Execute(_, _)
\* the lines executed in order
Execute(m, lines) ==
    IF lines = <<>> THEN m ELSE Execute(Step(m, Head(lines)), Tail(lines))

RECURSIVE ValueOf(_, _)
\* the value of an expression over the values env gives to the variables
ValueOf(e, env) ==
    IF e.kind = "IntLiteralExprAST" THEN e.value
    ELSE IF e.kind = "VariableExprAST" THEN env[e.name]
    ELSE IF e.op = "Add" THEN WrappingAdd(ValueOf(e.lhs, env), ValueOf(e.rhs, env))
    ELSE WrappingSub(ValueOf(e.lhs, env), ValueOf(e.rhs, env))

\* the words the variables hold before a statement, and the word every
\* other slot and the registers hold
Words == {0, 1, I32Max, I32Min}
OtherWords == {5, I32Min}

\* the frame memory in which the variable n holds env[n] and every other
\* slot holds w
FrameMemory(map, top, env, w) ==
    [off \in {o \in 32..(top - 1) : o % 4 = 0} |->
        IF \E n \in DOMAIN map : map[n] = off
        THEN env[CHOOSE n \in DOMAIN map : map[n] = off]
        ELSE w]

\* a step that compiles an assignment without failing
CompilesAssignment ==
    /\ mode = "generate" /\ gen_pc = "loop" /\ stmt_idx < Len(statements)
    /\ stmt_idx' = stmt_idx + 1
    /\ CurrentStatement.kind = "AssignmentAST"

\* C15: the lines emitted for x := e, executed in order from any frame
\* memory and registers, leave in the slot of x the value of e over the
\* words the variables held before (sums and differences modulo 2^32) and
\* leave the slot of every other variable as it was.
C15_AssignmentCorrect ==
    [][CompilesAssignment =>
          LET map == cg'.symbol_map
              x == CurrentStatement.var.name
              e == CurrentStatement.assign
              lines == Emitted
          IN \A env \in [DOMAIN map -> Words], w \in OtherWords :
                LET before == FrameMemory(map, cg'.frame_pointer, env, w)
                    after == Execute(Machine(before, w, w), lines).mem
                IN /\ after[map[x]] = ValueOf(e, env)
                   /\ \A n \in DOMAIN map \ {x} : after[map[n]] = before[map[n]]
      ]_vars

\* the statement a := (a + 1) - b has been compiled after another statement:
\* its value depends on the word a held before, on an intermediate result
\* and on a second variable; the words tried include 2^31 - 1 and -2^31, on
\* which the sum and the difference wrap
C15_Witness ==
    /\ mode = "generate"
    /\ gen_pc = "loop"
    /\ stmt_idx = 2
    /\ statements[2] =
          AssignmentAST(VariableExprAST(NameA),
                        BinaryExprAST("Sub",
                                      BinaryExprAST("Add", VariableExprAST(NameA),
                                                    IntLiteralExprAST(1)),
                                      VariableExprAST(NameB)))
    /\ WrappingAdd(I32Max, 1) = I32Min
    /\ WrappingSub(I32Min, 1) = I32Max

====
